---- MODULE Spec2Model ----
(***************************************************************************)
(* Recovery planner of src/src/planner.py, the tool functions of           *)
(* src/src/agent_tools.py that call it, the coverage report of             *)
(* src/src/predict.py, and the BOM traversal and recovery options of       *)
(* src/src/advisor.py with the BOM lookup of src/src/bom.py.               *)
(*                                                                         *)
(* Time is counted in thousandths of an hour, as an offset from "now"      *)
(* (pd.Timestamp.utcnow() at the call): need_by_ts_utc = 5000 is a         *)
(* deadline 5 h ahead, ETA_ts = 1853 an arrival 1.853 h ahead.  Every      *)
(* evaluation of "now" inside one call is the same instant.                *)
(* Coordinates are in thousandths of a degree; every location lies on the  *)
(* equator (lat = 0), where the haversine distance is r * |dlng|.          *)
(* Tables are sequences of rows (DataFrames); key lookups assume one row   *)
(* per key, as the loaders of src/src/load_data.py produce.                *)
(***************************************************************************)
EXTENDS Integers, Sequences, FiniteSets, TLC

VARIABLES inv, plants_csv, plants, orders, plant_material, bom, ret, adv

vars == <<inv, plants_csv, plants, orders, plant_material, bom, ret, adv>>

\* ------------------------------------------------------------------ bounds
\* Largest number of order lines in the orders table.
MaxOrders == 2

\* The largest number of rows of a BOM table.
MaxEdges == 4

\* ---------------------------------------------------------------- constants
ROAD_KMPH == 60
SLA_ON_TIME_H == 0
\* float("inf")
Inf == 1000000000

IsFinite(x) == x < Inf

Max(a, b) == IF a >= b THEN a ELSE b

Abs(a) == IF a >= 0 THEN a ELSE -a

\* ------------------------------------------------------------ small helpers
\* Great-circle distance, in metres, for two points on the equator:
\* a = sin(dlmb/2)^2, 2 r atan2(sqrt a, sqrt(1-a)) = r * dlmb, and
\* r * pi / 180 = 111.195 km per degree for r = 6371.0088.
haversine_km(lat1, lon1, lat2, lon2) ==
    (111195 * Abs(lon2 - lon1)) \div 1000

\* plants.loc[key]: the rows of the table with this loc_id (KeyError: none).
PlantRows(plants_ix, key) ==
    SelectSeq(plants_ix, LAMBDA r : r.loc_id = key)

\* km / ROAD_KMPH between the rows a and b found for two ids, to the nearest
\* thousandth of an hour; inf on KeyError (no row for one of them).
TravelBetween(a, b) ==
    IF a = <<>> \/ b = <<>>
    THEN Inf
    ELSE (haversine_km(a[1].lat, a[1].lng, b[1].lat, b[1].lng)
          + ROAD_KMPH \div 2) \div ROAD_KMPH

travel_hours(plants_ix, src, dst) ==
    TravelBetween(PlantRows(plants_ix, src), PlantRows(plants_ix, dst))

\* float(row["lead_time_h"]) of the rows hit by the key, inf on KeyError.
LeadOf(hit) ==
    IF hit = <<>> THEN Inf ELSE hit[1].lead_time_h

\* lead.loc[(src, sku)]["lead_time_h"], inf on KeyError.
lead_time_hours(lead, src, sku) ==
    LeadOf(SelectSeq(lead, LAMBDA r : r.loc_id = src /\ r.sku = sku))

\* float(row["on_hand"]) of the rows hit by the key, 0.0 on KeyError.
StockOf(hit) ==
    IF hit = <<>> THEN 0 ELSE hit[1].on_hand

\* inv.loc[(sku, src)]["on_hand"], 0.0 on KeyError.
on_hand(inv_ix, src, sku) ==
    StockOf(SelectSeq(inv_ix, LAMBDA r : r.sku = sku /\ r.loc_id = src))

\* ------------------------------------------------------------- core planner
\* Mutant of Excluded: the origin is not skipped.
NeverExcluded(forbid_loc, src) ==
    FALSE

\* "if forbid_loc and src == forbid_loc: continue"; "" and None are falsy.
Excluded(forbid_loc, src) ==
    forbid_loc /= "" /\ src = forbid_loc

\* int(round(lt_h)): the nearest whole number of hours, a half going to the
\* even neighbour.
RoundHours(lt_h) ==
    IF lt_h % 1000 > 500 THEN lt_h \div 1000 + 1
    ELSE IF lt_h % 1000 < 500 THEN lt_h \div 1000
    ELSE IF (lt_h \div 1000) % 2 = 0 THEN lt_h \div 1000
    ELSE lt_h \div 1000 + 1

\* Mutant of MakeStrategy: the tag without the lead time.
MakeStrategyTag(lt_h) ==
    "produce-then-ship"

\* f"make-{int(round(lt_h))}h-then-ship"
MakeStrategy(lt_h) ==
    "make-" \o ToString(RoundHours(lt_h)) \o "h-then-ship"

\* Mutant of Candidate: the arrival of a produced unit leaves out the road.
CandidateNoRoad(src, qty, stock, travel_h, lt_h, forbid_loc) ==
    IF Excluded(forbid_loc, src)
    THEN <<>>
    ELSE IF stock >= qty /\ IsFinite(travel_h)
    THEN <<[src |-> src, eta_h |-> travel_h, strategy |-> "stock-now"]>>
    ELSE IF IsFinite(lt_h) /\ IsFinite(travel_h)
    THEN <<[src |-> src, eta_h |-> lt_h, strategy |-> MakeStrategy(lt_h)]>>
    ELSE <<>>

\* Mutant of Candidate: stock must exceed the quantity (> for >=).
CandidateStrict(src, qty, stock, travel_h, lt_h, forbid_loc) ==
    IF Excluded(forbid_loc, src)
    THEN <<>>
    ELSE IF stock > qty /\ IsFinite(travel_h)
    THEN <<[src |-> src, eta_h |-> travel_h, strategy |-> "stock-now"]>>
    ELSE IF IsFinite(lt_h) /\ IsFinite(travel_h)
    THEN <<[src |-> src, eta_h |-> lt_h + travel_h,
            strategy |-> MakeStrategy(lt_h)]>>
    ELSE <<>>

\* Mutant of Candidate: stock is shipped without the check of the quantity.
CandidateUnchecked(src, qty, stock, travel_h, lt_h, forbid_loc) ==
    IF Excluded(forbid_loc, src)
    THEN <<>>
    ELSE IF IsFinite(travel_h)
    THEN <<[src |-> src, eta_h |-> travel_h, strategy |-> "stock-now"]>>
    ELSE <<>>

\* One pass of the loop over plants.index: the candidate that location src
\* adds to the list, if any.
Candidate(src, qty, stock, travel_h, lt_h, forbid_loc) ==
    IF Excluded(forbid_loc, src)
    THEN <<>>
    ELSE IF stock >= qty /\ IsFinite(travel_h)
    THEN <<[src |-> src, eta_h |-> travel_h, strategy |-> "stock-now"]>>
    ELSE IF IsFinite(lt_h) /\ IsFinite(travel_h)
    THEN <<[src |-> src, eta_h |-> lt_h + travel_h,
            strategy |-> MakeStrategy(lt_h)]>>
    ELSE <<>>

CandidateOf(src, sku, qty, dest_loc_id, inv_ix, plants_ix, lead, forbid_loc) ==
    Candidate(src, qty, on_hand(inv_ix, src, sku),
              travel_hours(plants_ix, src, dest_loc_id),
              lead_time_hours(lead, src, sku), forbid_loc)

\* The candidate list built by the loop over plants.index, from row i on.
RECURSIVE CandidatesFrom(_, _, _, _, _, _, _, _)
CandidatesFrom(i, sku, qty, dest_loc_id, inv_ix, plants_ix, lead, forbid_loc) ==
    IF i > Len(plants_ix)
    THEN <<>>
    ELSE CandidateOf(plants_ix[i].loc_id, sku, qty, dest_loc_id,
                     inv_ix, plants_ix, lead, forbid_loc)
         \o CandidatesFrom(i + 1, sku, qty, dest_loc_id,
                           inv_ix, plants_ix, lead, forbid_loc)

\* Insertion of c into a list sorted by eta_h, after the entries that are
\* not larger (list.sort is stable).
RECURSIVE InsertByEta(_, _)
InsertByEta(c, s) ==
    IF s = <<>> THEN <<c>>
    ELSE IF c.eta_h < s[1].eta_h THEN <<c>> \o s
    ELSE <<s[1]>> \o InsertByEta(c, Tail(s))

\* candidates.sort(key=lambda x: x[1])
RECURSIVE SortByEta(_)
SortByEta(cands) ==
    IF cands = <<>> THEN <<>>
    ELSE InsertByEta(cands[Len(cands)],
                     SortByEta(SubSeq(cands, 1, Len(cands) - 1)))

\* (source_loc_id, ETA hours from now, strategy); src = "" stands for None.
\* Mutant of Choose: the first candidate found, without the sort.
ChooseFirstFound(candidates) ==
    IF candidates = <<>>
    THEN [src |-> "", eta_h |-> Inf, strategy |-> "no-feasible-source"]
    ELSE candidates[1]

\* "if not candidates: return None, inf, ..."; else the head of the sorted list.
Choose(candidates) ==
    IF candidates = <<>>
    THEN [src |-> "", eta_h |-> Inf, strategy |-> "no-feasible-source"]
    ELSE SortByEta(candidates)[1]

best_source_for_line(sku, qty, dest_loc_id, inv_ix, plants_ix, lead, forbid_loc) ==
    Choose(CandidatesFrom(1, sku, qty, dest_loc_id,
                          inv_ix, plants_ix, lead, forbid_loc))

\* Mutant of HoursFrom: the arrival itself, not its distance from now.
HoursAbsolute(now, h) ==
    now + h

\* eta = now + pd.Timedelta(hours=h); (eta - now).total_seconds()/3600, for
\* the reading now of the clock (thousandths of an hour since the tables
\* were loaded).
HoursFrom(now, h) ==
    (now + h) - now

\* _best_source_for_line called when the clock reads now.
best_source_at(now, sku, qty, dest_loc_id, inv_ix, plants_ix, lead, forbid_loc) ==
    LET chosen == best_source_for_line(sku, qty, dest_loc_id, inv_ix,
                                       plants_ix, lead, forbid_loc)
    IN  IF chosen.src = "" THEN chosen
        ELSE [chosen EXCEPT !.eta_h = HoursFrom(now, @)]

\* Timestamps of a plan row: <<t>> is the instant t, <<>> is pd.NaT.
NaT == <<>>

Ts(t) == <<t>>

\* round(x, 2) of a number of hours, x in thousandths of an hour.
Round2(x) ==
    IF x >= 0 THEN ((x + 5) \div 10) * 10 ELSE -(((-x + 5) \div 10) * 10)

\* Mutant of DfCopy: the working frame is the caller's frame itself.
DfSame(df) ==
    [shared |-> TRUE, rows |-> df]

\* df.copy(): a frame of its own with the rows of df; shared tells whether a
\* write to the working frame reaches df.
DfCopy(df) ==
    [shared |-> FALSE, rows |-> df]

\* The caller's frame df once the callee has left the rows written in its
\* working frame w.
CallerSees(df, w, written) ==
    IF w.shared THEN written ELSE df

\* inv["on_hand"].clip(lower=0); set_index keeps the rows.
NormInv(inv_raw) ==
    [i \in DOMAIN inv_raw |-> [inv_raw[i] EXCEPT !.on_hand = Max(0, @)]]

\* Mutant of InScope: overdue lines are kept.
InScopeAnyDue(row, sku) ==
    row.sku = sku

\* orders[(orders["sku"] == sku) & (orders["need_by_ts_utc"] >= now)]
InScope(row, sku) ==
    row.sku = sku /\ row.need_by_ts_utc >= 0

RECURSIVE InsertByNeedBy(_, _)
InsertByNeedBy(r, s) ==
    IF s = <<>> THEN <<r>>
    ELSE IF r.need_by_ts_utc < s[1].need_by_ts_utc THEN <<r>> \o s
    ELSE <<s[1]>> \o InsertByNeedBy(r, Tail(s))

\* sort_values("need_by_ts_utc"): below 17 rows numpy sorts by insertion,
\* which keeps equal deadlines in table order.
RECURSIVE SortByNeedBy(_)
SortByNeedBy(rows) ==
    IF rows = <<>> THEN <<>>
    ELSE InsertByNeedBy(rows[Len(rows)],
                        SortByNeedBy(SubSeq(rows, 1, Len(rows) - 1)))

\* Mutant of Impacted: the lines in scope are left in table order.
ImpactedUnsorted(orders_n, sku) ==
    SelectSeq(orders_n, LAMBDA r : InScope(r, sku))

\* The impacted order lines: in scope, earliest deadline first.
Impacted(orders_n, sku) ==
    SortByNeedBy(SelectSeq(orders_n, LAMBDA r : InScope(r, sku)))

\* Mutant of LatenessH: the difference without the clamp at 0.
LatenessUnclamped(eta_ts, need_by) ==
    eta_ts - need_by

\* max(0.0, (eta_ts - need_by).total_seconds()/3600.0)
LatenessH(eta_ts, need_by) ==
    Max(0, eta_ts - need_by)

\* Mutant of IsLate: an infinite lateness is not counted.
IsLateIfFinite(lateness_h) ==
    IsFinite(lateness_h) /\ lateness_h > SLA_ON_TIME_H

\* "if lateness_h > SLA_ON_TIME_H: late_count += 1"
IsLate(lateness_h) ==
    lateness_h > SLA_ON_TIME_H

\* The stored lateness: 0.0 if not finite, else round(lateness_h, 2).
StoredLateness(lateness_h) ==
    IF ~IsFinite(lateness_h) THEN 0 ELSE Round2(lateness_h)

\* Mutant of NoSourceFields: the source is left None (""), the strategy is
\* the selector's reason.
NoSourceFieldsRaw ==
    [lateness_h |-> Inf, eta_ts |-> NaT, source_id |-> "",
     strategy |-> "no-feasible-source"]

\* The branch of a line without a feasible source.
NoSourceFields ==
    [lateness_h |-> Inf, eta_ts |-> NaT, source_id |-> "NONE",
     strategy |-> "no-source"]

\* The branch of a line with a feasible source.
SourceFields(best, need_by) ==
    [lateness_h |-> LatenessH(best.eta_h, need_by), eta_ts |-> Ts(best.eta_h),
     source_id |-> best.src, strategy |-> best.strategy]

\* "if src is None or not math.isfinite(eta_h)"
LineFields(best, need_by) ==
    IF best.src = "" \/ ~IsFinite(best.eta_h)
    THEN NoSourceFields
    ELSE SourceFields(best, need_by)

\* The plan row appended for an order line, and whether the line counted
\* as late.
LineOut(row, sku, f) ==
    [late |-> IsLate(f.lateness_h),
     row  |-> [order_id      |-> row.order_id,
               customer_id   |-> row.customer_id,
               sku           |-> sku,
               qty           |-> row.qty,
               dest_loc_id   |-> row.dest_loc_id,
               source_loc_id |-> f.source_id,
               ETA_ts        |-> f.eta_ts,
               strategy      |-> f.strategy,
               lateness_h    |-> StoredLateness(f.lateness_h)]]

\* One pass of the loop over impacted.iterrows().
PlanLine(row, sku, inv_ix, plants_ix, lead, origin) ==
    LineOut(row, sku,
            LineFields(best_source_for_line(sku, row.qty, row.dest_loc_id,
                                            inv_ix, plants_ix, lead, origin),
                       row.need_by_ts_utc))

\* Mutant of PlanLines: the first line takes the stock, the later lines find
\* none.
PlanLinesFirstTakesAll(impacted, sku, inv_ix, plants_ix, lead, origin) ==
    [i \in DOMAIN impacted |->
        PlanLine(impacted[i], sku, IF i = 1 THEN inv_ix ELSE <<>>,
                 plants_ix, lead, origin)]

\* The loop over impacted.iterrows().
PlanLines(impacted, sku, inv_ix, plants_ix, lead, origin) ==
    [i \in DOMAIN impacted |->
        PlanLine(impacted[i], sku, inv_ix, plants_ix, lead, origin)]

RECURSIVE LateCount(_)
LateCount(lines) ==
    IF lines = <<>> THEN 0
    ELSE (IF lines[1].late THEN 1 ELSE 0) + LateCount(Tail(lines))

\* round(100.0 * (1.0 - late_count / max(1, n)), 1), in tenths of a percent.
OnTimePct(late_count, n) ==
    (2 * 1000 * (Max(1, n) - late_count) + Max(1, n)) \div (2 * Max(1, n))

\* Mutant of EmptyResult: none of no lines is on time.
EmptyResultZeroPct ==
    [plans |-> <<>>, kpi |-> [on_time_pct |-> 0, late_orders |-> 0]]

\* The return value for an empty selection.
EmptyResult ==
    [plans |-> <<>>, kpi |-> [on_time_pct |-> 1000, late_orders |-> 0]]

\* plans = pd.DataFrame(plan_rows) and the kpi dict.
PlanResult(lines, late_count) ==
    [plans |-> [i \in DOMAIN lines |-> lines[i].row],
     kpi   |-> [on_time_pct |-> OnTimePct(late_count, Len(lines)),
                late_orders |-> late_count]]

Planned(lines) ==
    IF lines = <<>> THEN EmptyResult ELSE PlanResult(lines, LateCount(lines))

\* plan_recovery(delay, inv_raw, plants_raw, orders_raw, plant_material_raw)
plan_recovery(delay, inv_raw, plants_raw, orders_raw, plant_material_raw) ==
    Planned(PlanLines(Impacted(orders_raw, delay.sku), delay.sku,
                      NormInv(inv_raw), plants_raw, plant_material_raw,
                      delay.origin_loc_id))

\* What a call of plan_recovery leaves in inv_raw: the copy is clipped and
\* indexed.
InvAfterPlan(inv_raw) ==
    CallerSees(inv_raw, DfCopy(inv_raw), NormInv(inv_raw))

\* def plan_for_delay(*args, **kwargs): return plan_recovery(*args, **kwargs)
\* Python binds the positional arguments to the first parameters and each
\* keyword to the parameter of that name; a keyword that names no parameter,
\* a parameter bound twice or left unbound raises TypeError.
PlanRecoveryParams ==
    <<"delay", "inv_raw", "plants_raw", "orders_raw", "plant_material_raw">>

\* Nothing is returned by a call that raises.
NoValue ==
    [plans |-> <<>>, kpi |-> [on_time_pct |-> 0, late_orders |-> 0]]

ParamNames == {PlanRecoveryParams[i] : i \in DOMAIN PlanRecoveryParams}

\* The parameters bound by position.
ByPosition(args) ==
    {PlanRecoveryParams[i] : i \in DOMAIN PlanRecoveryParams \cap DOMAIN args}

Binds(args, kwargs) ==
    /\ Len(args) <= Len(PlanRecoveryParams)
    /\ DOMAIN kwargs \subseteq ParamNames
    /\ DOMAIN kwargs \cap ByPosition(args) = {}
    /\ DOMAIN kwargs \cup ByPosition(args) = ParamNames

\* The value bound to parameter i.
Arg(args, kwargs, i) ==
    IF i \in DOMAIN args THEN args[i] ELSE kwargs[PlanRecoveryParams[i]]

plan_for_delay(args, kwargs) ==
    IF ~Binds(args, kwargs)
    THEN [kind |-> "raise", exc |-> "TypeError", value |-> NoValue]
    ELSE [kind |-> "return", exc |-> "",
          value |-> plan_recovery(Arg(args, kwargs, 1), Arg(args, kwargs, 2),
                                  Arg(args, kwargs, 3), Arg(args, kwargs, 4),
                                  Arg(args, kwargs, 5))]

\* The columns that plan_recovery requires of each table.
RequiredColumns ==
    [inventory      |-> {"sku", "loc_id", "on_hand"},
     plants         |-> {"loc_id", "lat", "lng"},
     orders         |-> {"order_id", "customer_id", "sku", "qty", "dest_loc_id",
                         "need_by_ts_utc"},
     plant_material |-> {"loc_id", "sku", "lead_time_h"}]

\* Mutant of Lacking: no table is checked.
LackingNone(columns) ==
    <<>>

\* The tables that fail "if not {...}.issubset(df.columns)", in the order of
\* the checks; columns gives the columns of each table.
Lacking(columns) ==
    SelectSeq(<<"inventory", "plants", "orders", "plant_material">>,
              LAMBDA t : ~(RequiredColumns[t] \subseteq columns[t]))

\* plan_recovery on tables with the given columns: the first failed check
\* raises ValueError before the orders are selected.
plan_recovery_checked(delay, columns, inv_raw, plants_raw, orders_raw, pm_raw) ==
    IF Lacking(columns) /= <<>>
    THEN [kind |-> "raise", exc |-> "ValueError", value |-> NoValue]
    ELSE [kind |-> "return", exc |-> "",
          value |-> plan_recovery(delay, inv_raw, plants_raw, orders_raw,
                                  pm_raw)]

\* ------------------------------------------------------------ BOM advisor
\* The ids a BOM row or a request may name; X is in no BOM.
BomIds == {"A", "B", "C", "D"}

Ids == BomIds \cup {"X"}

\* Mutant of build_reverse_bom: the map from a parent to its children.
build_forward_bom(bom_t) ==
    [p \in {bom_t[i].Parent : i \in DOMAIN bom_t} |->
        {bom_t[i].Child : i \in {j \in DOMAIN bom_t : bom_t[j].Parent = p}}]

\* build_reverse_bom: Child -> set of Parents, a key per child of the table.
build_reverse_bom(bom_t) ==
    [c \in {bom_t[i].Child : i \in DOMAIN bom_t} |->
        {bom_t[i].Parent : i \in {j \in DOMAIN bom_t : bom_t[j].Child = c}}]

\* rev.get(node, [])
RevGet(rev, node) ==
    IF node \in DOMAIN rev THEN rev[node] ELSE {}

\* The orders in which a for loop may meet the elements of a set.
Orderings(S) ==
    {f \in [1..Cardinality(S) -> S] :
        \A i, j \in 1..Cardinality(S) : i /= j => f[i] /= f[j]}

\* The parents that pass "if parent not in seen".
Unseen(parents, seen) ==
    parents \ seen

\* Mutant of PopNode: the for loop stops after the first parent it meets.
PopNodeFirstOnly(rev, seen, stack, order) ==
    [seen  |-> seen \cup {order[i] : i \in DOMAIN order \cap {1}},
     stack |-> SubSeq(stack, 1, Len(stack) - 1)
               \o SubSeq(order, 1, IF order = <<>> THEN 0 ELSE 1)]

\* Mutant of PopNode: the node is read but left on the stack.
PopNodeKeep(rev, seen, stack, order) ==
    [seen  |-> seen \cup {order[i] : i \in DOMAIN order},
     stack |-> stack \o order]

\* One pass of "while stack": node = stack.pop() and the for loop over its
\* parents, which meets them in the order given; the new (seen, stack).
PopNode(rev, seen, stack, order) ==
    [seen  |-> seen \cup {order[i] : i \in DOMAIN order},
     stack |-> SubSeq(stack, 1, Len(stack) - 1) \o order]

\* The parents the pass that pops the top of the stack appends.
NewParents(rev, seen, stack) ==
    Unseen(RevGet(rev, stack[Len(stack)]), seen)

\* One of the orders, the same on every evaluation.
FixedOrder(S) == CHOOSE f \in Orderings(S) : TRUE

\* The while loop, the for loop taking the parents in one fixed order.
RECURSIVE Walk(_, _)
Walk(rev, st) ==
    IF st.stack = <<>> THEN st.seen
    ELSE Walk(rev, PopNode(rev, st.seen, st.stack,
                           FixedOrder(NewParents(rev, st.seen, st.stack))))

\* ancestors_products(missing_product, bom)
ancestors_products(missing_product, bom_t) ==
    Walk(build_reverse_bom(bom_t), [seen |-> {}, stack |-> <<missing_product>>])

\* Mutant of affected_orders_and_customers: every order is affected.
affected_all(affected_products, orders_t) ==
    [rows |-> Len(orders_t),
     customers |-> {orders_t[i].customer_id : i \in DOMAIN orders_t}]

\* affected_orders_and_customers: the number of affected order rows and the
\* customers of these rows (sorted and unique in the code: a set).
affected_orders_and_customers(affected_products, orders_t) ==
    [rows |-> Cardinality({i \in DOMAIN orders_t :
                              orders_t[i].sku \in affected_products}),
     customers |-> {orders_t[i].customer_id :
                       i \in {j \in DOMAIN orders_t :
                                 orders_t[j].sku \in affected_products}}]

\* ------------------------------------------------------------- BOM lookup
\* The ids in sorted order.
SortedIds == <<"A", "B", "C", "D", "X">>

\* The rows of s without the repeats of an earlier row (drop_duplicates).
RECURSIVE DropDuplicates(_)
DropDuplicates(s) ==
    IF s = <<>> THEN <<>>
    ELSE LET front == DropDuplicates(SubSeq(s, 1, Len(s) - 1))
         IN  IF \E i \in DOMAIN front : front[i] = s[Len(s)]
             THEN front
             ELSE Append(front, s[Len(s)])

\* load_bom: the child column is the component, the parent the material.
load_bom(bom_t) ==
    DropDuplicates([i \in DOMAIN bom_t |->
                       [component |-> bom_t[i].Child,
                        material  |-> bom_t[i].Parent]])

\* sorted(bom_df.loc[bom_df["component"] == code, "material"].unique())
products_using(component_code, bom_df) ==
    SelectSeq(SortedIds,
              LAMBDA m : \E i \in DOMAIN bom_df :
                            /\ bom_df[i].component = component_code
                            /\ bom_df[i].material = m)

\* _bom_detect(code, bom_df)
bom_detect(code, bom_df) ==
    IF bom_df /= <<>> /\ \E i \in DOMAIN bom_df : bom_df[i].component = code
    THEN "component"
    ELSE IF bom_df /= <<>> /\ \E i \in DOMAIN bom_df : bom_df[i].material = code
    THEN "material"
    ELSE "none"

\* The SKUs that simulate_component_stockout replans; <<>> when the code is
\* neither in the BOM nor in the orders.
SimSkus(code, role, bom_df, orders_t) ==
    IF role = "component" THEN products_using(code, bom_df)
    ELSE IF role = "material" THEN <<code>>
    ELSE IF \E i \in DOMAIN orders_t : orders_t[i].sku = code THEN <<code>>
    ELSE <<>>

\* inv_sim.loc[inv_sim["sku"].isin(skus), "on_hand"] = 0
ZeroStock(inv_t, skus) ==
    [i \in DOMAIN inv_t |->
        IF \E k \in DOMAIN skus : skus[k] = inv_t[i].sku
        THEN [inv_t[i] EXCEPT !.on_hand = 0]
        ELSE inv_t[i]]

\* What simulate_component_stockout leaves in the cached stock table: the
\* rows are zeroed in inv_sim = inv.copy().
InvAfterSim(inv_t, skus) ==
    CallerSees(inv_t, DfCopy(inv_t), ZeroStock(inv_t, skus))

\* plans["sim_sku"] = s
Tagged(plans, s) ==
    [i \in DOMAIN plans |->
        [sim_sku |-> s, order_id |-> plans[i].order_id,
         customer_id |-> plans[i].customer_id, qty |-> plans[i].qty,
         dest_loc_id |-> plans[i].dest_loc_id,
         source_loc_id |-> plans[i].source_loc_id, ETA_ts |-> plans[i].ETA_ts,
         strategy |-> plans[i].strategy, lateness_h |-> plans[i].lateness_h]]

\* ------------------------------------------------------------------ inputs
Locs == {"L1", "L2", "L3"}

\* Longitude of each location: L1-L2 is 1 degree (1.853 h of road), L2-L3
\* 1.079 degrees (2 h).
Lng(l) == CASE l = "L1" -> 0 [] l = "L2" -> 1000 [] l = "L3" -> 2079

\* A row of plants.csv after pd.to_numeric(errors="coerce"): a coordinate is
\* <<v>>, or <<>> when the cell is empty or not a number (NaN).
PlantRow(l) == [loc_id |-> l, lat |-> <<0>>, lng |-> <<Lng(l)>>]

NoLng(l) == [loc_id |-> l, lat |-> <<0>>, lng |-> <<>>]

\* The locations file: which locations have a row, in which order, and one
\* file whose row of L3 has no longitude.
PlantTables ==
    { <<PlantRow("L1"), PlantRow("L2"), PlantRow("L3")>>,
      <<PlantRow("L3"), PlantRow("L2"), PlantRow("L1")>>,
      <<PlantRow("L1"), PlantRow("L2"), NoLng("L3")>>,
      <<PlantRow("L2"), PlantRow("L3")>> }

\* Mutant of Dropna: the rows are kept, a missing coordinate reads as 0.
KeepNa(rows) ==
    rows

\* out.dropna(subset=["lat","lng"])
Dropna(rows) ==
    SelectSeq(rows, LAMBDA r : r.lat /= <<>> /\ r.lng /= <<>>)

\* The value of a coordinate cell.
Coord(c) == IF c = <<>> THEN 0 ELSE c[1]

\* The frame of floats that load_plants returns.
Frame(rows) ==
    [i \in DOMAIN rows |->
        [loc_id |-> rows[i].loc_id, lat |-> Coord(rows[i].lat),
         lng |-> Coord(rows[i].lng)]]

load_plants(csv) ==
    Frame(Dropna(csv))

\* The rows of (sku, l): one per value of v, which is <<>> or <<on_hand>>.
StockRow(sku, l, v) ==
    [i \in DOMAIN v |-> [sku |-> sku, loc_id |-> l, on_hand |-> v[i]]]

\* The stock table: product P at L1 and L3; product Q holds 100 at L2 and a
\* negative (miskeyed) quantity at L3.
InvTables ==
    { StockRow("P", "L1", a) \o StockRow("P", "L3", b)
        \o StockRow("Q", "L2", <<100>>) \o StockRow("Q", "L3", <<-5>>)
      : a \in {<<>>, <<30>>, <<100>>}, b \in {<<>>, <<100>>} }

LeadRow(sku, l, v) ==
    [i \in DOMAIN v |-> [loc_id |-> l, sku |-> sku, lead_time_h |-> v[i]]]

\* The capability table: P can be made at L2 in 1 h and at L3 in 48 h.
LeadTables ==
    { LeadRow("P", "L2", a) \o LeadRow("P", "L3", b)
      : a \in {<<>>, <<1000>>}, b \in {<<>>, <<48000>>} }

\* The order lines a table may hold (qty > 0); need_by is relative to now:
\* a line of 30 to L2 due 1.85 h ahead, lines of 30 and 80 to L2 and L3 due
\* 5 h ahead, one line of P that was due an hour ago and one line of Q.
LineChoices ==
    [sku : {"P"}, qty : {30, 80}, dest_loc_id : {"L2", "L3"},
     need_by_ts_utc : {5000}]
    \cup {[sku |-> "P", qty |-> 30, dest_loc_id |-> "L2", need_by_ts_utc |-> 1850],
          [sku |-> "P", qty |-> 30, dest_loc_id |-> "L2", need_by_ts_utc |-> -1000],
          [sku |-> "Q", qty |-> 30, dest_loc_id |-> "L2", need_by_ts_utc |-> 5000]}

OrderRow(i, c) ==
    [order_id |-> "O" \o ToString(i), customer_id |-> "CU" \o ToString(i),
     sku |-> c.sku, qty |-> c.qty, dest_loc_id |-> c.dest_loc_id,
     need_by_ts_utc |-> c.need_by_ts_utc]

\* The order tables of at most MaxOrders lines drawn from the choices.
TablesOf(choices) ==
    UNION { { [i \in 1..n |-> OrderRow(i, f[i])] : f \in [1..n -> choices] }
            : n \in 0..MaxOrders }

OrderTables == TablesOf(LineChoices)

\* Inputs for the produce-then-ship cases: P can be made at L2 in 1.853 h (as
\* long as the road from L1 to L2) and at L3 in 48 h; lines of P are due 5 h
\* or 10 h ahead.
LeadTablesMake ==
    { LeadRow("P", "L2", a) \o LeadRow("P", "L3", b)
      : a \in {<<>>, <<1853>>}, b \in {<<>>, <<48000>>} }

\* The BOM rows (Parent uses Child): the chain C -> B -> A, the second path
\* C -> D -> A, the edge that closes the cycle A -> C, and a self-loop on B.
BomRow(parent, child) == [Parent |-> parent, Child |-> child]

BomRows ==
    { BomRow("B", "C"), BomRow("A", "B"), BomRow("D", "C"), BomRow("A", "D"),
      BomRow("C", "A"), BomRow("B", "B") }

\* The BOM tables of at most MaxEdges rows, in any order, repeats included.
BomTables ==
    UNION { [1..n -> BomRows] : n \in 0..MaxEdges }

\* The orders of the BOM cases: one order of A, or orders of A and B.
LineOf(sku) ==
    [sku |-> sku, qty |-> 30, dest_loc_id |-> "L2", need_by_ts_utc |-> 5000]

BomOrderTables ==
    { <<OrderRow(1, LineOf("A"))>>,
      <<OrderRow(1, LineOf("A")), OrderRow(2, LineOf("B"))>> }

LineChoicesMake ==
    [sku : {"P"}, qty : {30, 80}, dest_loc_id : {"L2", "L3"},
     need_by_ts_utc : {5000, 10000}]

\* ------------------------------------------------------------------- state
\* No call of the advisor in progress.  pushed counts, per id, the appends to
\* the stack (the initial stack included).
Idle ==
    [pc |-> "idle", missing |-> "", seen |-> {}, stack |-> <<>>,
     pushed |-> [n \in Ids |-> 0], rows |-> 0, customers |-> {}]

\* args holds the arguments of a call that are not a delay, a blocked route
\* or a code; out holds what a call returns besides a plan and its KPI.
NoCall ==
    [op |-> "", kind |-> "none", exc |-> "", delay |-> [sku |-> ""],
     blocked |-> <<>>, code |-> "", plans |-> NoValue.plans,
     kpi |-> NoValue.kpi, args |-> <<>>, out |-> <<>>]

Init ==
    /\ inv \in InvTables
    /\ plants_csv \in PlantTables
    /\ plants = load_plants(plants_csv)
    /\ orders \in OrderTables
    /\ plant_material \in LeadTables
    /\ bom = <<>>
    /\ ret = NoCall
    /\ adv = Idle

\* The outcome of a call: what it returned or raised.
Outcome(op, delay, blocked, r) ==
    [op |-> op, kind |-> r.kind, exc |-> r.exc, delay |-> delay,
     blocked |-> blocked, code |-> "", plans |-> r.value.plans,
     kpi |-> r.value.kpi, args |-> <<>>, out |-> <<>>]

Delay(sku, qty_unavailable, origin) ==
    [sku |-> sku, qty_unavailable |-> qty_unavailable, origin_loc_id |-> origin]

\* A call plan_recovery(delay, inv, plants, orders, plant_material); ret
\* holds the outcome of the call in progress until the caller takes it.  The
\* call works on copies: the copies of the locations and capabilities are
\* indexed, the deadlines of the copy of the orders converted (they are
\* timestamps already), which leaves their rows as they are.
PlanRecoveryCall(delay) ==
    Outcome("plan_recovery", delay, <<>>,
            plan_for_delay(<<delay, inv, plants, orders, plant_material>>, <<>>))

PlanRecovery(sku, origin) ==
    /\ ret.kind = "none"
    /\ ret' = PlanRecoveryCall(Delay(sku, 50, origin))
    /\ inv' = InvAfterPlan(inv)
    /\ plants' = CallerSees(plants, DfCopy(plants), plants)
    /\ orders' = CallerSees(orders, DfCopy(orders), orders)
    /\ plant_material' = CallerSees(plant_material, DfCopy(plant_material),
                                    plant_material)
    /\ UNCHANGED <<plants_csv, bom, adv>>

\* The SKU ids in sorted order.
SortedSkus == <<"P", "Q">>

\* sorted(orders.loc[orders["dest_loc_id"] == dest, "sku"].unique())
SkusTo(dest) ==
    SelectSeq(SortedSkus,
              LAMBDA s : \E j \in DOMAIN orders :
                            orders[j].dest_loc_id = dest /\ orders[j].sku = s)

\* The loop over sku_set: the first call of plan_for_delay, which decides the
\* outcome when it raises.
RerouteCalls(sku_set, blocked) ==
    IF sku_set = <<>>
    THEN [NoCall EXCEPT !.op = "reroute_block", !.kind = "message",
                        !.blocked = blocked]
    ELSE Outcome("reroute_block", Delay(sku_set[1], 1000000000, "NA"), blocked,
                 plan_for_delay(
                     <<Delay(sku_set[1], 1000000000, "NA"), inv, plants, orders>>,
                     [plant_material |-> plant_material,
                      blocked_routes |-> <<blocked>>]))

\* reroute_block(origin_loc_id, dest_loc_id, sku)
RerouteBlock(origin_loc_id, dest_loc_id, sku) ==
    /\ ret.kind = "none"
    /\ ret' = RerouteCalls(IF sku /= "" THEN <<sku>> ELSE SkusTo(dest_loc_id),
                           <<origin_loc_id, dest_loc_id>>)
    /\ UNCHANGED <<inv, plants_csv, plants, orders, plant_material, bom, adv>>

\* The call of plan_for_delay that the loop of simulate_component_stockout
\* makes for SKU s.
SimCall(s, inv_sim) ==
    plan_for_delay(<<Delay(s, 1000000000, "NA"), inv_sim, plants, orders>>,
                   [plant_material |-> plant_material])

\* pd.concat of the tagged plans of the SKUs from position k on.
RECURSIVE SimPlans(_, _, _)
SimPlans(skus, k, inv_sim) ==
    IF k > Len(skus) THEN <<>>
    ELSE Tagged(SimCall(skus[k], inv_sim).value.plans, skus[k])
         \o SimPlans(skus, k + 1, inv_sim)

\* What the loop and the lines after it come to: the exception of the first
\* call when it raises, a message when no plan has a row, else the view.
SimResult(code, skus, first, combined) ==
    IF first.kind = "raise"
    THEN [NoCall EXCEPT !.op = "simulate_component_stockout", !.code = code,
                        !.kind = "raise", !.exc = first.exc]
    ELSE IF combined = <<>>
    THEN [NoCall EXCEPT !.op = "simulate_component_stockout", !.code = code,
                        !.kind = "message"]
    ELSE [NoCall EXCEPT !.op = "simulate_component_stockout", !.code = code,
                        !.kind = "return", !.plans = combined]

SimLoop(code, skus, inv_sim) ==
    IF skus = <<>>
    THEN [NoCall EXCEPT !.op = "simulate_component_stockout", !.code = code,
                        !.kind = "message"]
    ELSE SimResult(code, skus, SimCall(skus[1], inv_sim),
                   SimPlans(skus, 1, inv_sim))

\* simulate_component_stockout(code)
SimulateStockout(code) ==
    /\ ret.kind = "none" /\ adv.pc = "idle"
    /\ ret' = SimLoop(code,
                      SimSkus(code, bom_detect(code, load_bom(bom)),
                              load_bom(bom), orders),
                      ZeroStock(inv, SimSkus(code, bom_detect(code, load_bom(bom)),
                                             load_bom(bom), orders)))
    /\ inv' = InvAfterSim(inv, SimSkus(code, bom_detect(code, load_bom(bom)),
                                       load_bom(bom), orders))
    /\ UNCHANGED <<plants_csv, plants, orders, plant_material, bom, adv>>

\* The caller takes the outcome of the call; the next call may start.
Return ==
    /\ ret.kind /= "none"
    /\ ret' = NoCall
    /\ UNCHANGED <<inv, plants_csv, plants, orders, plant_material, bom, adv>>

Skus == {SortedSkus[i] : i \in DOMAIN SortedSkus}

Origins == Locs \cup {"NA"}

Next ==
    \/ \E sku \in Skus, origin \in Origins : PlanRecovery(sku, origin)
    \/ \E sku \in {"", "P"} : RerouteBlock("L1", "L2", sku)
    \/ Return

Spec == Init /\ [][Next]_vars

\* ------------------------------------------------- the advisor, step by step
\* ancestors_products(missing_product, bom) is entered: seen = set(),
\* stack = [missing_product].
AncestorsCall(missing_product) ==
    /\ adv.pc = "idle" /\ ret.kind = "none"
    /\ adv' = [Idle EXCEPT !.pc = "loop", !.missing = missing_product,
                           !.stack = <<missing_product>>,
                           !.pushed[missing_product] = 1]
    /\ UNCHANGED <<inv, plants_csv, plants, orders, plant_material, bom, ret>>

\* The state after one pass of the while loop that appends the sequence order.
Popped(st, order) ==
    [adv EXCEPT !.seen = st.seen, !.stack = st.stack,
                !.pushed = [n \in Ids |->
                    adv.pushed[n]
                    + Cardinality({i \in DOMAIN order : order[i] = n})]]

\* One pass of the while loop; the set of parents is met in any order.
AncestorsPop ==
    /\ adv.pc = "loop" /\ adv.stack /= <<>>
    /\ \E order \in Orderings(NewParents(build_reverse_bom(bom),
                                          adv.seen, adv.stack)) :
          adv' = Popped(PopNode(build_reverse_bom(bom), adv.seen, adv.stack,
                                order), order)
    /\ UNCHANGED <<inv, plants_csv, plants, orders, plant_material, bom, ret>>

\* The report of the impact for the parents found.
Impact(parents, r) ==
    [adv EXCEPT !.pc = "done", !.rows = r.rows, !.customers = r.customers]

\* The stack is empty: ancestors_products returns seen, and the advisor
\* counts the affected orders and customers.
AncestorsReturn ==
    /\ adv.pc = "loop" /\ adv.stack = <<>>
    /\ adv' = Impact(adv.seen, affected_orders_and_customers(adv.seen, orders))
    /\ UNCHANGED <<inv, plants_csv, plants, orders, plant_material, bom, ret>>

\* The tables of the BOM cases.
InitBom ==
    /\ inv = StockRow("A", "L1", <<100>>) \o StockRow("B", "L1", <<100>>)
    /\ plants_csv = <<PlantRow("L1"), PlantRow("L2"), PlantRow("L3")>>
    /\ plants = load_plants(plants_csv)
    /\ orders \in BomOrderTables
    /\ plant_material = <<>>
    /\ bom \in BomTables
    /\ ret = NoCall
    /\ adv = Idle

\* The report is printed; the next run may start.
AdvisorExit ==
    /\ adv.pc = "done"
    /\ adv' = Idle
    /\ UNCHANGED <<inv, plants_csv, plants, orders, plant_material, bom, ret>>

NextBom ==
    \/ \E missing_product \in Ids : AncestorsCall(missing_product)
    \/ AncestorsPop
    \/ AncestorsReturn
    \/ AdvisorExit
    \/ \E code \in Ids : SimulateStockout(code)
    \/ Return

SpecBom == InitBom /\ [][NextBom]_vars

\* A run of ancestors_products that has started keeps executing: the pass of
\* the while loop and the return are taken when they can be.
FairSpecBom ==
    SpecBom /\ WF_vars(AncestorsPop) /\ WF_vars(AncestorsReturn)

\* The same calls on the inputs of the produce-then-ship cases.
InitMake ==
    /\ inv \in InvTables
    /\ plants_csv \in PlantTables
    /\ plants = load_plants(plants_csv)
    /\ orders \in TablesOf(LineChoicesMake)
    /\ plant_material \in LeadTablesMake
    /\ bom = <<>>
    /\ ret = NoCall
    /\ adv = Idle

SpecMake == InitMake /\ [][Next]_vars

\* ----------------------------------------------------------------- coverage
\* orders[orders["need_by_ts_utc"] <= now + pd.Timedelta(days=horizon_days)];
\* a day is 24000 thousandths of an hour.
Window(orders_t, horizon_days) ==
    SelectSeq(orders_t,
              LAMBDA r : r.need_by_ts_utc <= 0 + horizon_days * 24000)

\* The keys of t.groupby("sku"): the SKUs with a row, in sorted order.
GroupKeys(t) ==
    SelectSeq(SortedSkus, LAMBDA k : \E i \in DOMAIN t : t[i].sku = k)

RECURSIVE SumSeq(_)
SumSeq(s) ==
    IF s = <<>> THEN 0 ELSE s[1] + SumSeq(Tail(s))

\* window.groupby("sku")["qty"].sum() at key sku.
DemandOf(window, sku) ==
    SumSeq([i \in DOMAIN SelectSeq(window, LAMBDA r : r.sku = sku) |->
               SelectSeq(window, LAMBDA r : r.sku = sku)[i].qty])

\* Mutant of LeftJoin: the inner join keeps the keys found on both sides.
InnerJoin(keys, inv_t) ==
    SelectSeq(keys, LAMBDA k : \E i \in DOMAIN inv_t : inv_t[i].sku = k)

\* demand.to_frame().join(stock, how="left"): every key of demand is kept.
LeftJoin(keys, inv_t) ==
    keys

\* The on_hand of key sku after the join: inv.groupby("sku")["on_hand"].sum()
\* at the key, or the 0 of .fillna({"on_hand": 0}) when inv has no such key.
FillOnHand(inv_t, sku) ==
    IF \E i \in DOMAIN inv_t : inv_t[i].sku = sku
    THEN SumSeq([i \in DOMAIN SelectSeq(inv_t, LAMBDA r : r.sku = sku) |->
                    SelectSeq(inv_t, LAMBDA r : r.sku = sku)[i].on_hand])
    ELSE 0

\* One row of the frame, with df["gap"] and df["risk"].
CoverageRow(sku, demand, stock) ==
    [sku |-> sku, demand_in_window |-> demand, on_hand |-> stock,
     gap |-> stock - demand, risk |-> stock - demand < 0]

RECURSIVE InsertByGap(_, _)
InsertByGap(r, s) ==
    IF s = <<>> THEN <<r>>
    ELSE IF r.gap < s[1].gap THEN <<r>> \o s
    ELSE <<s[1]>> \o InsertByGap(r, Tail(s))

\* df.sort_values("gap"): below 17 rows numpy sorts by insertion, which keeps
\* equal gaps in key order.
RECURSIVE SortByGap(_)
SortByGap(rows) ==
    IF rows = <<>> THEN <<>>
    ELSE InsertByGap(rows[Len(rows)],
                     SortByGap(SubSeq(rows, 1, Len(rows) - 1)))

\* coverage_alerts(inv, orders, horizon_days): one row per key kept by the
\* join, sorted by gap.
coverage_alerts(inv_t, orders_t, horizon_days) ==
    LET window == Window(orders_t, horizon_days)
        keys   == LeftJoin(GroupKeys(window), inv_t)
    IN  SortByGap([i \in DOMAIN keys |->
                      CoverageRow(keys[i], DemandOf(window, keys[i]),
                                  FillOnHand(inv_t, keys[i]))])

\* A call coverage_alerts(inv, orders, horizon_days) on the loaded tables.
CoverageAlerts(horizon_days) ==
    /\ ret.kind = "none"
    /\ ret' = [NoCall EXCEPT !.op = "coverage_alerts", !.kind = "return",
                             !.args = [horizon_days |-> horizon_days],
                             !.out = coverage_alerts(inv, orders, horizon_days)]
    /\ UNCHANGED <<inv, plants_csv, plants, orders, plant_material, bom, adv>>

\* The order lines of the coverage cases: lines of P of 30 and 80 that were
\* due an hour ago, or are due in 100 h (4.2 days) or 200 h (8.3 days), and a
\* line of Q due in 5 h.
LineChoicesCov ==
    [sku : {"P"}, qty : {30, 80}, dest_loc_id : {"L2"},
     need_by_ts_utc : {-1000, 100000, 200000}]
    \cup {[sku |-> "Q", qty |-> 30, dest_loc_id |-> "L2", need_by_ts_utc |-> 5000]}

InitCov ==
    /\ inv \in InvTables
    /\ plants_csv = <<PlantRow("L1"), PlantRow("L2"), PlantRow("L3")>>
    /\ plants = load_plants(plants_csv)
    /\ orders \in TablesOf(LineChoicesCov)
    /\ plant_material = <<>>
    /\ bom = <<>>
    /\ ret = NoCall
    /\ adv = Idle

NextCov ==
    \/ \E horizon_days \in {1, 7} : CoverageAlerts(horizon_days)
    \/ Return

SpecCov == InitCov /\ [][NextCov]_vars

\* ------------------------------------------------ further calls of the tools
\* The columns of the tables of a call in which the columns in dropped, a set
\* of <<table, column>>, are absent.
ColumnsWithout(dropped) ==
    [t \in DOMAIN RequiredColumns |->
        {c \in RequiredColumns[t] : <<t, c>> \notin dropped}]

\* The cases of absent columns: each required column alone, and one column
\* of the stock table together with one of the order table.
DroppedSets ==
    UNION { { {<<t, c>>} : c \in RequiredColumns[t] }
            : t \in DOMAIN RequiredColumns }
    \cup { {<<"inventory", "on_hand">>, <<"orders", "qty">>} }

\* A call plan_recovery(delay, inv, plants, orders, plant_material) with the
\* columns in dropped absent.  The stock is clipped only once its columns
\* have been checked.
PlanRecoveryLacking(sku, dropped) ==
    /\ ret.kind = "none"
    /\ LET r == plan_recovery_checked(Delay(sku, 50, "NA"),
                                      ColumnsWithout(dropped), inv, plants,
                                      orders, plant_material)
       IN  ret' = [NoCall EXCEPT !.op = "plan_recovery", !.kind = r.kind,
                                 !.exc = r.exc, !.delay = Delay(sku, 50, "NA"),
                                 !.plans = r.value.plans, !.kpi = r.value.kpi,
                                 !.args = [dropped |-> dropped]]
    /\ inv' = IF RequiredColumns.inventory
                    \subseteq ColumnsWithout(dropped).inventory
              THEN InvAfterPlan(inv)
              ELSE inv
    /\ UNCHANGED <<plants_csv, plants, orders, plant_material, bom, adv>>

\* The readings of the clock at a call, in thousandths of an hour.
Clock == {0, 7000}

\* A call of _best_source_for_line on the tables as plan_recovery indexes
\* them, made when the clock reads now.
BestSourceForLine(now, sku, qty, dest_loc_id, forbid_loc) ==
    /\ ret.kind = "none"
    /\ ret' = [NoCall EXCEPT
                  !.op = "_best_source_for_line", !.kind = "return",
                  !.args = [now |-> now, sku |-> sku, qty |-> qty,
                            dest_loc_id |-> dest_loc_id,
                            forbid_loc |-> forbid_loc],
                  !.out = best_source_at(now, sku, qty, dest_loc_id,
                                         NormInv(inv), plants, plant_material,
                                         forbid_loc)]
    /\ UNCHANGED <<inv, plants_csv, plants, orders, plant_material, bom, adv>>

\* impact.affected_orders_if_missing(sku, orders)
affected_orders_if_missing(sku, orders_t) ==
    SelectSeq(orders_t, LAMBDA r : r.sku = sku)

\* lt_map.get(src, 72.0): the lead time of the last row of (sku, src).
LtMap(pm, sku, src) ==
    IF \E i \in DOMAIN pm : pm[i].sku = sku /\ pm[i].loc_id = src
    THEN pm[CHOOSE i \in DOMAIN pm :
                /\ pm[i].sku = sku /\ pm[i].loc_id = src
                /\ \A j \in DOMAIN pm :
                      (pm[j].sku = sku /\ pm[j].loc_id = src) => j <= i].lead_time_h
    ELSE 72000

\* The branch that words the action of a plan row.
RowAction(strat, src) ==
    IF strat = "stock-now" /\ src /= "" THEN "Ship now"
    ELSE IF strat = "produce" /\ src /= "" THEN "Produce"
    ELSE "No feasible source"

\* The per-order rows built from the plan.
PerOrder(plan) ==
    [i \in DOMAIN plan |->
        [order_id |-> plan[i].order_id, customer_id |-> plan[i].customer_id,
         dest_loc_id |-> plan[i].dest_loc_id, qty |-> plan[i].qty,
         action |-> RowAction(plan[i].strategy, plan[i].source_loc_id),
         strategy |-> plan[i].strategy,
         source_loc_id |-> plan[i].source_loc_id, ETA_ts |-> plan[i].ETA_ts,
         lateness_h |-> plan[i].lateness_h]]

\* Row a stands before row b under ["lateness_h", "ETA_ts"]; NaT sorts last.
SortsBefore(a, b) ==
    \/ a.lateness_h < b.lateness_h
    \/ /\ a.lateness_h = b.lateness_h
       /\ a.ETA_ts /= NaT
       /\ (b.ETA_ts = NaT \/ a.ETA_ts[1] < b.ETA_ts[1])

\* rows.sort_values(["lateness_h", "ETA_ts"]).iloc[0]
FirstByLateness(rows) ==
    rows[CHOOSE i \in DOMAIN rows :
            \A j \in DOMAIN rows :
                /\ ~SortsBefore(rows[j], rows[i])
                /\ (j < i => SortsBefore(rows[j], rows[i]) \/ SortsBefore(rows[i], rows[j]))]

WithStrategy(rows, strat) ==
    SelectSeq(rows, LAMBDA r : r.strategy = strat)

\* The top recommendation: a stock-now row if there is one, else a row whose
\* strategy reads "produce", else none.
TopAction(rows, pm, sku) ==
    IF WithStrategy(rows, "stock-now") /= <<>>
    THEN [action |-> "Ship now", lt |-> 0,
          source_loc_id |->
              FirstByLateness(WithStrategy(rows, "stock-now")).source_loc_id]
    ELSE IF WithStrategy(rows, "produce") /= <<>>
    THEN [action |-> "Produce",
          lt |-> LtMap(pm, sku,
                       FirstByLateness(WithStrategy(rows, "produce")).source_loc_id),
          source_loc_id |->
              FirstByLateness(WithStrategy(rows, "produce")).source_loc_id]
    ELSE [action |-> "No feasible plant", lt |-> 0, source_loc_id |-> ""]

\* What recommend_action_missing_sku comes to, given the affected lines and
\* the outcome r of its call of plan_for_delay.
RecommendResult(sku, affected, r) ==
    IF r.kind = "raise"
    THEN [NoCall EXCEPT !.op = "recommend_action_missing_sku",
                        !.kind = "raise", !.exc = r.exc,
                        !.args = [sku |-> sku]]
    ELSE IF r.value.plans = <<>>
    THEN [NoCall EXCEPT !.op = "recommend_action_missing_sku",
                        !.kind = "message", !.kpi = r.value.kpi,
                        !.args = [sku |-> sku],
                        !.out = [affected_orders |-> Len(affected)]]
    ELSE [NoCall EXCEPT !.op = "recommend_action_missing_sku",
                        !.kind = "return", !.kpi = r.value.kpi,
                        !.plans = PerOrder(r.value.plans),
                        !.args = [sku |-> sku],
                        !.out = [affected_orders |-> Len(affected),
                                 recommended_action |->
                                     TopAction(PerOrder(r.value.plans),
                                               plant_material, sku)]]

\* recommend_action_missing_sku(sku)
RecommendAction(sku) ==
    /\ ret.kind = "none"
    /\ ret' = RecommendResult(sku, affected_orders_if_missing(sku, orders),
                  plan_for_delay(
                      <<Delay(sku, 1000000000, "NA"), inv, plants, orders>>,
                      [plant_material |-> plant_material]))
    /\ UNCHANGED <<inv, plants_csv, plants, orders, plant_material, bom, adv>>

\* The stock tables are the loaded tables and the copies of them in which
\* the stock of P is zeroed at every location; the order lines are lines of
\* P of 30 to L2 and of 80 to L3 and a line of Q, all due 5 h ahead.
InitTools ==
    /\ inv \in InvTables \cup {ZeroStock(t, <<"P">>) : t \in InvTables}
    /\ plants_csv = <<PlantRow("L1"), PlantRow("L2"), PlantRow("L3")>>
    /\ plants = load_plants(plants_csv)
    /\ orders \in TablesOf(
          { [sku |-> "P", qty |-> 30, dest_loc_id |-> "L2", need_by_ts_utc |-> 5000],
            [sku |-> "P", qty |-> 80, dest_loc_id |-> "L3", need_by_ts_utc |-> 5000],
            [sku |-> "Q", qty |-> 30, dest_loc_id |-> "L2", need_by_ts_utc |-> 5000] })
    /\ plant_material \in LeadTables
    /\ bom = <<>>
    /\ ret = NoCall
    /\ adv = Idle

NextTools ==
    \/ \E sku \in Skus, origin \in {"NA", "L1"} : PlanRecovery(sku, origin)
    \/ \E sku \in Skus, dropped \in DroppedSets : PlanRecoveryLacking(sku, dropped)
    \/ \E now \in Clock, sku \in Skus, qty \in {30, 80}, dest_loc_id \in {"L2", "L3"},
          forbid_loc \in {"", "L1"} :
          BestSourceForLine(now, sku, qty, dest_loc_id, forbid_loc)
    \/ \E sku \in Skus : RecommendAction(sku)
    \/ \E code \in Skus : SimulateStockout(code)
    \/ Return

SpecTools == InitTools /\ [][NextTools]_vars

\* ------------------------------------------------ the advisor's recovery
\* The advisor reads the stock table as (Plant, Product, Stock), the
\* locations file as (Plant, latitude, longitude), rows without coordinates
\* included, and the capability table as (Plant, Product, lead_time).
\* plants_with_stock(inv, product, exclude_plants); no plant is excluded
\* when exclude_plants is empty.
plants_with_stock(inv_t, product, exclude_plants) ==
    SelectSeq(inv_t, LAMBDA r : /\ r.sku = product
                                /\ r.loc_id \notin exclude_plants
                                /\ r.on_hand > 0)

\* The rows that the left merge on "Plant" makes of the stock row r: one per
\* row of its plant, or one without coordinates.
MergeOne(r, matches) ==
    IF matches = <<>>
    THEN <<[loc_id |-> r.loc_id, sku |-> r.sku, on_hand |-> r.on_hand,
            lat |-> <<>>, lng |-> <<>>]>>
    ELSE [k \in DOMAIN matches |->
             [loc_id |-> r.loc_id, sku |-> r.sku, on_hand |-> r.on_hand,
              lat |-> matches[k].lat, lng |-> matches[k].lng]]

\* stock_df.merge(plants, on="Plant", how="left")
RECURSIVE Merge(_, _)
Merge(stock_df, plants_t) ==
    IF stock_df = <<>> THEN <<>>
    ELSE MergeOne(stock_df[1],
                  SelectSeq(plants_t, LAMBDA p : p.loc_id = stock_df[1].loc_id))
         \o Merge(Tail(stock_df), plants_t)

\* The distance of a candidate from the origin row o: <<d>>, <<Inf>> when the
\* candidate has no coordinates, <<>> (NaN) when the origin has none.
DistanceOf(o, r) ==
    IF r.lat = <<>> \/ r.lng = <<>> THEN <<Inf>>
    ELSE IF o.lat = <<>> \/ o.lng = <<>> THEN <<>>
    ELSE <<haversine_km(o.lat[1], o.lng[1], r.lat[1], r.lng[1])>>

\* The sort key of a distance; NaN sorts last.
DistanceKey(d) == IF d = <<>> THEN Inf + 1 ELSE d[1]

\* Row a stands before row b under ["distance_km", "Stock"],
\* ascending=[True, False].
NearerOrFuller(a, b) ==
    \/ DistanceKey(a.distance_km) < DistanceKey(b.distance_km)
    \/ /\ DistanceKey(a.distance_km) = DistanceKey(b.distance_km)
       /\ a.on_hand > b.on_hand

RECURSIVE InsertByDistance(_, _)
InsertByDistance(r, s) ==
    IF s = <<>> THEN <<r>>
    ELSE IF NearerOrFuller(r, s[1]) THEN <<r>> \o s
    ELSE <<s[1]>> \o InsertByDistance(r, Tail(s))

\* sort_values(["distance_km", "Stock"], ...): equal rows keep their order.
RECURSIVE SortByDistance(_)
SortByDistance(rows) ==
    IF rows = <<>> THEN <<>>
    ELSE InsertByDistance(rows[Len(rows)],
                          SortByDistance(SubSeq(rows, 1, Len(rows) - 1)))

\* The merged rows with their distance column: the distance from the first
\* row of origin, or float("nan") when origin is empty.
WithDistance(rows, origin) ==
    [i \in DOMAIN rows |->
        [loc_id |-> rows[i].loc_id, sku |-> rows[i].sku,
         on_hand |-> rows[i].on_hand, lat |-> rows[i].lat, lng |-> rows[i].lng,
         distance_km |-> IF origin = <<>> THEN <<>>
                         ELSE DistanceOf(origin[1], rows[i])]]

\* The branch of an origin with a row in the locations file: the origin is
\* excluded and the distances are taken from its first row.
NearestFrom(inv_t, plants_t, product, origin_plant, origin) ==
    SortByDistance(WithDistance(
        Merge(plants_with_stock(inv_t, product, {origin_plant}), plants_t),
        origin))

\* The branch of an origin without a row: the plants with stock, none
\* excluded, with merged["distance_km"] = float("nan").
NearestUnknown(inv_t, plants_t, product) ==
    SortByDistance(WithDistance(
        Merge(plants_with_stock(inv_t, product, {}), plants_t),
        <<>>))

\* nearest_plants_with_stock(inv, plants, product, origin_plant)
nearest_plants_with_stock(inv_t, plants_t, product, origin_plant) ==
    IF SelectSeq(plants_t, LAMBDA p : p.loc_id = origin_plant) = <<>>
    THEN NearestUnknown(inv_t, plants_t, product)
    ELSE NearestFrom(inv_t, plants_t, product, origin_plant,
                     SelectSeq(plants_t, LAMBDA p : p.loc_id = origin_plant))

\* Mutant of Ship: the whole stock of the plant is shipped.
ShipAll(available, remaining) ==
    available

\* ship = min(available, remaining)
Ship(available, remaining) ==
    IF available <= remaining THEN available ELSE remaining

\* The entry appended to the plan.
Entry(r, ship) ==
    [Plant |-> r.loc_id, available_qty |-> r.on_hand, ship_qty |-> ship,
     distance_km |-> r.distance_km]

\* The loop of allocate_from_alt_plants from row i on.
RECURSIVE AllocateFrom(_, _, _)
AllocateFrom(rows, i, remaining) ==
    IF i > Len(rows) \/ remaining <= 0
    THEN [plan |-> <<>>, remaining |-> remaining]
    ELSE IF Ship(rows[i].on_hand, remaining) > 0
    THEN LET rest == AllocateFrom(rows, i + 1,
                                  remaining - Ship(rows[i].on_hand, remaining))
         IN  [plan |-> <<Entry(rows[i], Ship(rows[i].on_hand, remaining))>>
                       \o rest.plan,
              remaining |-> rest.remaining]
    ELSE AllocateFrom(rows, i + 1, remaining)

\* allocate_from_alt_plants(stock_df_sorted, need_qty)
allocate_from_alt_plants(stock_df_sorted, need_qty) ==
    AllocateFrom(stock_df_sorted, 1, need_qty)

\* pm.sort_values("lead_time", ascending=True).iloc[0]: the first of the
\* rows with the smallest lead time.
FirstByLead(pm) ==
    pm[CHOOSE i \in DOMAIN pm :
          \A j \in DOMAIN pm :
              /\ pm[i].lead_time_h <= pm[j].lead_time_h
              /\ (j < i => pm[j].lead_time_h > pm[i].lead_time_h)]

\* The dict returned for the best row; a coordinate is <<>> (None) when the
\* plant has no row or the cell is empty.
BestOption(pm, plant_row) ==
    [Plant |-> FirstByLead(pm).loc_id, lead_time |-> FirstByLead(pm).lead_time_h,
     latitude |-> IF plant_row = <<>> THEN <<>> ELSE plant_row[1].lat,
     longitude |-> IF plant_row = <<>> THEN <<>> ELSE plant_row[1].lng]

\* The option among the rows pm of the product, if there is a row.
OptionAmong(pm, plants_t) ==
    IF pm = <<>> THEN <<>>
    ELSE <<BestOption(pm, SelectSeq(plants_t,
                          LAMBDA p : p.loc_id = FirstByLead(pm).loc_id))>>

\* best_production_option(plant_mat, plants, product): <<>> is None; a lead
\* time that is not a number reads Inf and is dropped.
best_production_option(plant_mat, plants_t, product) ==
    OptionAmong(SelectSeq(plant_mat, LAMBDA r : r.sku = product
                                                /\ IsFinite(r.lead_time_h)),
                plants_t)

\* The report of the advisor; lookups counts the calls of
\* best_production_option.
Report(parents, impact, stock_candidates, alloc, plant_mat, plants_t, product) ==
    [affected_parent_products |-> parents,
     affected_orders_rows |-> impact.rows,
     affected_customers |-> impact.customers,
     stock_candidates |-> stock_candidates,
     reallocate_plan |-> alloc.plan,
     remaining_need_after_reallocation |-> alloc.remaining,
     lookups |-> IF alloc.remaining > 0 THEN 1 ELSE 0,
     production_option_if_needed |->
         IF alloc.remaining > 0
         THEN best_production_option(plant_mat, plants_t, product)
         ELSE <<>>]

\* advisor.plan_recovery on tables inv_t, bom_t, orders_t, plant_mat, plants_t.
advisor_plan_recovery(inv_t, bom_t, orders_t, pm, plants_t, product, qty, origin) ==
    Report(ancestors_products(product, bom_t),
           affected_orders_and_customers(ancestors_products(product, bom_t),
                                         orders_t),
           nearest_plants_with_stock(inv_t, plants_t, product, origin),
           allocate_from_alt_plants(
               nearest_plants_with_stock(inv_t, plants_t, product, origin), qty),
           pm, plants_t, product)

\* A run of the advisor on the tables of the data directory.
AdvisorRecovery(missing_product, missing_qty, origin_plant) ==
    /\ ret.kind = "none" /\ adv.pc = "idle"
    /\ ret' = [NoCall EXCEPT
                  !.op = "advisor.plan_recovery", !.kind = "return",
                  !.args = [missing_product |-> missing_product,
                            missing_qty |-> missing_qty,
                            origin_plant |-> origin_plant],
                  !.out = advisor_plan_recovery(inv, bom, orders, plant_material,
                                                plants_csv, missing_product,
                                                missing_qty, origin_plant)]
    /\ UNCHANGED <<inv, plants_csv, plants, orders, plant_material, bom, adv>>

InitAdvisor ==
    /\ inv \in InvTables
    /\ plants_csv \in PlantTables
    /\ plants = load_plants(plants_csv)
    /\ orders = <<OrderRow(1, LineOf("P"))>>
    /\ plant_material \in LeadTables
    /\ bom = <<>>
    /\ ret = NoCall
    /\ adv = Idle

NextAdvisor ==
    \/ \E missing_product \in Skus, missing_qty \in {0, 20, 120, 250},
          origin_plant \in Origins :
          AdvisorRecovery(missing_product, missing_qty, origin_plant)
    \/ Return

SpecAdvisor == InitAdvisor /\ [][NextAdvisor]_vars

\* ------------------------------------------------------- terms of the claims
Range(s) == {s[i] : i \in DOMAIN s}

\* A call of plan_recovery has returned.
IsPlan == ret.op = "plan_recovery" /\ ret.kind = "return"

PlanRowSet == Range(ret.plans)

\* The order line a plan row was made for (order ids are unique).
LineOfRow(row) == CHOOSE o \in Range(orders) : o.order_id = row.order_id

\* The plan rows made for an order line.
RowsOfLine(o) == {row \in PlanRowSet : row.order_id = o.order_id}

\* The order lines in scope of the event: its product, due now or later.
InScopeLines ==
    {o \in Range(orders) : o.sku = ret.delay.sku /\ o.need_by_ts_utc >= 0}

\* The location has a row with coordinates in the locations table.
HasCoords(l) == \E p \in Range(plants) : p.loc_id = l

\* Non-excluded locations with coordinates.
Sources == {l \in Locs : HasCoords(l) /\ l /= ret.delay.origin_loc_id}

\* The location holds at least qty of the product.
Stocked(l, sku, qty) ==
    \E r \in Range(inv) : r.sku = sku /\ r.loc_id = l /\ r.on_hand >= qty

\* The location has a finite lead time for the product.
CanMake(l, sku) ==
    \E r \in Range(plant_material) :
        r.loc_id = l /\ r.sku = sku /\ IsFinite(r.lead_time_h)

LeadAt(l, sku) ==
    (CHOOSE r \in Range(plant_material) : r.loc_id = l /\ r.sku = sku).lead_time_h

\* Transit time between two locations with coordinates.
Transit(l, d) == travel_hours(plants, l, d)

\* Location l offers line o a stock-now option / a produce-then-ship option.
StockOption(l, o) ==
    l \in Sources /\ HasCoords(o.dest_loc_id) /\ Stocked(l, o.sku, o.qty)

MakeOption(l, o) ==
    l \in Sources /\ HasCoords(o.dest_loc_id) /\ CanMake(l, o.sku)

MakeArrival(l, o) == LeadAt(l, o.sku) + Transit(l, o.dest_loc_id)

\* The row has an arrival, no later than t.
Arrives(row, t) == row.ETA_ts /= NaT /\ row.ETA_ts[1] <= t

\* The row's source and arrival are those of an option its location offers.
IsOption(row, o) ==
    \/ /\ row.strategy = "stock-now"
       /\ StockOption(row.source_loc_id, o)
       /\ row.ETA_ts = Ts(Transit(row.source_loc_id, o.dest_loc_id))
    \/ /\ row.strategy /= "stock-now"
       /\ MakeOption(row.source_loc_id, o)
       /\ row.ETA_ts = Ts(MakeArrival(row.source_loc_id, o))

NoMakeBy(o, t) ==
    \A m \in Locs : MakeOption(m, o) => MakeArrival(m, o) > t

C4_RerouteAvoidsBlockedRoute ==
    (ret.op = "reroute_block" /\ ret.kind /= "message") =>
        /\ ret.kind = "return"
        /\ \A row \in PlanRowSet :
              ~(row.source_loc_id = ret.blocked[1]
                /\ row.dest_loc_id = ret.blocked[2])

Excess(row) ==
    IF row.ETA_ts[1] > LineOfRow(row).need_by_ts_utc
    THEN row.ETA_ts[1] - LineOfRow(row).need_by_ts_utc
    ELSE 0

SourcedRows == {row \in PlanRowSet : row.source_loc_id /= "NONE"}

LateRows ==
    {row \in PlanRowSet : row.source_loc_id = "NONE" \/ Excess(row) > 0}

\* No location holds stock of the product, none can make it.
NoSupply(sku) ==
    /\ \A r \in Range(inv) : r.sku = sku => r.on_hand <= 0
    /\ \A l \in Locs : ~CanMake(l, sku)

ZeroLatenessRows == {row \in PlanRowSet : row.lateness_h = 0}

\* C8: the KPI is the one recomputed from the returned rows: late_orders is
\* the number of rows whose lateness_h is not 0, on_time_pct is 100 times the
\* share of rows whose lateness_h is 0 (to 1 decimal).
C8_KpiMatchesRows ==
    (IsPlan /\ ret.plans /= <<>>) =>
        /\ ret.kpi.late_orders = Len(ret.plans) - Cardinality(ZeroLatenessRows)
        /\ (2 * Len(ret.plans) * ret.kpi.on_time_pct
              - 2000 * Cardinality(ZeroLatenessRows))
           \in -Len(ret.plans) .. Len(ret.plans)

NoOption(o) ==
    \A l \in Locs : ~StockOption(l, o) /\ ~MakeOption(l, o)

CsvCoords(l) ==
    \E r \in Range(plants_csv) : r.loc_id = l /\ r.lat /= <<>> /\ r.lng /= <<>>

MakeOnly(o) ==
    /\ \A l \in Locs : ~StockOption(l, o)
    /\ \E m \in Locs : MakeOption(m, o)

HasOption(l, o) == StockOption(l, o) \/ MakeOption(l, o)

OptionArrival(l, o) ==
    IF StockOption(l, o) THEN Transit(l, o.dest_loc_id) ELSE MakeArrival(l, o)

\* The position of a location id in the sorted order of the ids.
LocRank(l) == CASE l = "L1" -> 1 [] l = "L2" -> 2 [] l = "L3" -> 3

\* C14: among the candidates with the same, smallest arrival the row's source
\* is the one nearest to the destination and, at equal distance, the one with
\* the smallest location id, whatever the row order of the locations table.
C14_TieBreakByDistanceThenId ==
    IsPlan =>
        \A row \in SourcedRows : \A l \in Locs :
            ( /\ HasOption(l, LineOfRow(row))
              /\ Ts(OptionArrival(l, LineOfRow(row))) = row.ETA_ts )
            => /\ Transit(row.source_loc_id, row.dest_loc_id)
                    <= Transit(l, row.dest_loc_id)
               /\ Transit(row.source_loc_id, row.dest_loc_id)
                    = Transit(l, row.dest_loc_id)
                  => LocRank(row.source_loc_id) <= LocRank(l)

\* The order table with its lines in the opposite order.
Reversed(s) == [i \in DOMAIN s |-> s[Len(s) + 1 - i]]

\* The plan of the same event on the same tables for an order table t.
PlanOf(t) == plan_recovery(ret.delay, inv, plants, t, plant_material).plans

\* The quantity of the product held at the location.
HeldAt(l, sku) == on_hand(NormInv(inv), l, sku)

Resolved == adv.pc = "done"

\* The direct parents of an id: the products with a BOM row that uses it.
ParentsOf(n) == {r.Parent : r \in {e \in Range(bom) : e.Child = n}}

\* The least set that holds S and the parents of its members.
RECURSIVE UpClosure(_)
UpClosure(S) ==
    IF UNION {ParentsOf(n) : n \in S} \subseteq S
    THEN S
    ELSE UpClosure(S \cup UNION {ParentsOf(n) : n \in S})

\* The products reached from n by one or more child-to-parent rows.
AncestorsOf(n) == UpClosure(ParentsOf(n))

\* The BOM is the chain C -> B -> A.
IsChain == Range(bom) = {BomRow("B", "C"), BomRow("A", "B")}

\* C16: the set returned for a missing component is exactly the set of
\* products reached from it by one or more child-to-parent rows; on the chain
\* C -> B -> A a missing C yields {A, B}.
C16_ExactlyTheAncestors ==
    Resolved =>
        /\ adv.seen = AncestorsOf(adv.missing)
        /\ (IsChain /\ adv.missing = "C") => adv.seen = {"A", "B"}

\* The chain, resolved for C.
C16_Witness ==
    /\ Resolved
    /\ IsChain
    /\ adv.missing = "C"
    /\ adv.seen = {"A", "B"}

\* C18: an id without a parent row (unknown, or a top-level product) resolves
\* to the empty set, the run ends with 0 affected orders and no affected
\* customer, and the lookup of its direct parents is empty too.
C18_NoParentsEmptySet ==
    /\ (Resolved /\ ParentsOf(adv.missing) = {}) =>
          /\ adv.seen = {}
          /\ adv.rows = 0
          /\ adv.customers = {}
    /\ \A n \in Ids :
          ParentsOf(n) = {} => products_using(n, load_bom(bom)) = <<>>

\* The top-level product A of the chain, with an order of A on the books,
\* resolved to nothing.
C18_Witness ==
    /\ Resolved
    /\ IsChain
    /\ adv.missing = "A"
    /\ \E o \in Range(orders) : o.sku = "A"
    /\ adv.seen = {}
    /\ adv.rows = 0

\* C19: the set returned is the one a second resolution of the same component
\* returns, on the same BOM and on the BOM listed backwards, whatever the
\* order in which the parents of a node were visited.
C19_ClosureOrderIndependent ==
    Resolved =>
        /\ adv.seen = ancestors_products(adv.missing, bom)
        /\ adv.seen = ancestors_products(adv.missing, Reversed(bom))

\* A component with two parents, B and D, visited in one order or the other,
\* on a BOM that reads differently backwards.
C19_Witness ==
    /\ Resolved
    /\ adv.missing = "C"
    /\ ParentsOf("C") = {"B", "D"}
    /\ Reversed(bom) /= bom
    /\ adv.seen = {"A", "B", "D"}

\* C17 as stated, the part on the stack: no id is pushed more than once.
C17_PushedAtMostOnce ==
    \A n \in Ids : adv.pushed[n] <= 1

\* The pushes of an id: one when it enters seen, and the initial one for the
\* missing product.
PushesOf(n) ==
    (IF n \in adv.seen THEN 1 ELSE 0)
    + (IF adv.pc /= "idle" /\ n = adv.missing THEN 1 ELSE 0)

\* C17 as amended: every run of the traversal that has started returns, on
\* BOMs with cycles, self-loops, several paths and repeated rows too; an id is
\* pushed once when it is first met as a parent, and the missing product once
\* more at the start, so no id is pushed more than twice.
C17_Terminates ==
    /\ [](\A n \in Ids : adv.pushed[n] = PushesOf(n) /\ adv.pushed[n] <= 2)
    /\ (adv.pc = "loop") ~> (adv.pc = "done")

\* A run on a BOM with the cycle C -> B -> A -> C and a repeated row has
\* returned, the missing product C pushed twice.
C17_Witness ==
    /\ Resolved
    /\ {BomRow("B", "C"), BomRow("A", "B"), BomRow("C", "A")} = Range(bom)
    /\ Len(bom) = 4
    /\ adv.missing = "C"
    /\ adv.pushed["C"] = 2
    /\ adv.seen = {"A", "B", "C"}

\* The orders of a product that are due now or later.
OpenOrdersOf(p) ==
    {o \in Range(orders) : o.sku = p /\ o.need_by_ts_utc >= 0}

\* C20: a stockout simulation for a component with open orders on a product
\* that depends on it, directly or through other products, returns one
\* combined plan: a row, tagged with its product, for every open order of
\* every such product, and no row of another product.
C20_StockoutReplansAllDependents ==
    ( /\ ret.op = "simulate_component_stockout"
      /\ bom_detect(ret.code, load_bom(bom)) = "component"
      /\ \E p \in AncestorsOf(ret.code) : OpenOrdersOf(p) /= {} )
    => /\ ret.kind = "return"
       /\ \A p \in AncestorsOf(ret.code) : \A o \in OpenOrdersOf(p) :
             \E row \in Range(ret.plans) :
                row.sim_sku = p /\ row.order_id = o.order_id
       /\ \A row \in Range(ret.plans) : row.sim_sku \in AncestorsOf(ret.code)

IsCoverage == ret.op = "coverage_alerts" /\ ret.kind = "return"

\* The sum of the function val over the members of the finite set S.
RECURSIVE Total(_, _)
Total(S, val) ==
    IF S = {} THEN 0
    ELSE val[CHOOSE x \in S : TRUE]
         + Total(S \ {CHOOSE x \in S : TRUE}, val)

\* The stock records of a product, one per position of the stock table.
StockRecords(sku) == {i \in DOMAIN inv : inv[i].sku = sku}

StockAt == [i \in DOMAIN inv |-> inv[i].on_hand]

\* The order lines of a product due within [now, now + horizon_days].
LinesDue(sku, horizon_days) ==
    {i \in DOMAIN orders :
        /\ orders[i].sku = sku
        /\ orders[i].need_by_ts_utc >= 0
        /\ orders[i].need_by_ts_utc <= horizon_days * 24000}

QtyAt == [i \in DOMAIN orders |-> orders[i].qty]

\* C21: every row of coverage_alerts has gap = on_hand - demand_in_window
\* and risk = (gap < 0); its on_hand is the sum of the product's stock over
\* all locations; a product with demand in the window and no stock rows has
\* a row, with on_hand = 0.
C21_CoverageRows ==
    IsCoverage =>
        /\ \A i \in DOMAIN ret.out :
              /\ ret.out[i].gap = ret.out[i].on_hand - ret.out[i].demand_in_window
              /\ ret.out[i].risk = (ret.out[i].gap < 0)
              /\ ret.out[i].on_hand = Total(StockRecords(ret.out[i].sku), StockAt)
        /\ \A sku \in Skus :
              (LinesDue(sku, ret.args.horizon_days) /= {} /\ StockRecords(sku) = {})
                  => \E i \in DOMAIN ret.out :
                        ret.out[i].sku = sku /\ ret.out[i].on_hand = 0

\* A product with a line due in the window and no stock rows is reported at
\* risk, next to a product whose stock is held at two locations.
C21_Witness ==
    /\ IsCoverage
    /\ LinesDue("P", ret.args.horizon_days) /= {} /\ StockRecords("P") = {}
    /\ \E i, j \in DOMAIN ret.out :
          /\ ret.out[i].sku = "P" /\ ret.out[i].on_hand = 0 /\ ret.out[i].risk
          /\ ret.out[j].sku = "Q" /\ ret.out[j].on_hand = 95 /\ ~ret.out[j].risk

\* C22 (as stated): demand_in_window of a row is the sum of the quantities
\* of exactly the product's lines due within [now, now + horizon_days];
\* lines due before now or after the horizon add nothing.
C22_DemandWithinWindow ==
    IsCoverage =>
        \A i \in DOMAIN ret.out :
            ret.out[i].demand_in_window
                = Total(LinesDue(ret.out[i].sku, ret.args.horizon_days), QtyAt)

\* C23: plan_recovery and the stockout simulation leave their input tables
\* as they were: no call changes a row or a value of the stock, location,
\* order or capability table that the caller (the cached snapshot) holds.
C23_InputsUnchanged ==
    [][/\ inv' = inv
       /\ plants_csv' = plants_csv
       /\ plants' = plants
       /\ orders' = orders
       /\ plant_material' = plant_material]_vars

\* A stockout of P has been simulated and the cached table still holds the
\* stock of P, and the negative quantity that plan_recovery clips.
C23_Witness ==
    /\ ret.op = "simulate_component_stockout" /\ ret.code = "P"
    /\ \E r \in Range(orders) : r.sku = "P"
    /\ \E r \in Range(inv) : r.sku = "P" /\ r.on_hand > 0
    /\ \E r \in Range(inv) : r.on_hand < 0

\* A call of plan_recovery on tables from which columns were dropped.
IsLackingCall == ret.op = "plan_recovery" /\ "dropped" \in DOMAIN ret.args

\* C24: when an input table of plan_recovery lacks a required column, the
\* call raises an error and returns no plan and no KPI.
C24_MissingColumnFails ==
    (IsLackingCall /\ ret.args.dropped /= {}) =>
        /\ ret.kind = "raise"
        /\ ret.exc = "ValueError"
        /\ ret.plans = NoValue.plans
        /\ ret.kpi = NoValue.kpi

\* The capability table lacks lead_time_h, the product has an open order
\* line and a stocked source: the call raises all the same.
C24_Witness ==
    /\ IsLackingCall
    /\ ret.args.dropped = {<<"plant_material", "lead_time_h">>}
    /\ ret.kind = "raise"
    /\ InScopeLines /= {}
    /\ \E o \in InScopeLines, l \in Locs : Stocked(l, o.sku, o.qty)

\* A call of the source selector has returned.
IsSelected == ret.op = "_best_source_for_line" /\ ret.kind = "return"

IsRecommend == ret.op = "recommend_action_missing_sku"

\* The plan of the product's open lines.
PlanFor(sku) ==
    plan_recovery(Delay(sku, 1000000000, "NA"), inv, plants, orders,
                  plant_material).plans

\* C27 (as stated): for a SKU with open order lines,
\* recommend_action_missing_sku recommends shipping from stock when some
\* plan row is stock-now, otherwise producing when some location can produce
\* the SKU, and words "No feasible" only for lines without a source.
C27_RecommendShipOrProduce ==
    (IsRecommend /\ PlanFor(ret.args.sku) /= <<>>) =>
        /\ ret.kind = "return"
        /\ (\E row \in Range(PlanFor(ret.args.sku)) : row.strategy = "stock-now")
              => ret.out.recommended_action.action = "Ship now"
        /\ (/\ \A row \in Range(PlanFor(ret.args.sku)) : row.strategy /= "stock-now"
            /\ \E row \in Range(PlanFor(ret.args.sku)) : row.strategy /= "no-source")
              => ret.out.recommended_action.action = "Produce"
        /\ \A i \in DOMAIN ret.plans :
              ret.plans[i].action = "No feasible source"
                  => ret.plans[i].strategy = "no-source"

\* The stock of the product is zero in every stock record.
Zeroed(sku) == \A r \in Range(inv) : r.sku = sku => r.on_hand = 0

IsAdvisor == ret.op = "advisor.plan_recovery" /\ ret.kind = "return"

ShipQty == [i \in DOMAIN ret.out.reallocate_plan |->
               ret.out.reallocate_plan[i].ship_qty]

CandidateStock == [i \in DOMAIN ret.out.stock_candidates |->
                      ret.out.stock_candidates[i].on_hand]

\* C28: the greedy reallocation conserves quantity: for need_qty >= 0 the
\* shipped quantities plus the remaining need equal need_qty, each entry
\* ships 0 < ship_qty <= available_qty, the remaining need is
\* max(0, need_qty - total candidate stock), and a production option is
\* looked up only when the remaining need is > 0.
C28_AllocationConserves ==
    (IsAdvisor /\ ret.args.missing_qty >= 0) =>
        /\ Total(DOMAIN ShipQty, ShipQty)
              + ret.out.remaining_need_after_reallocation
              = ret.args.missing_qty
        /\ \A e \in Range(ret.out.reallocate_plan) :
              0 < e.ship_qty /\ e.ship_qty <= e.available_qty
        /\ ret.out.remaining_need_after_reallocation
              = Max(0, ret.args.missing_qty
                       - Total(DOMAIN CandidateStock, CandidateStock))
        /\ ret.out.lookups > 0
              => ret.out.remaining_need_after_reallocation > 0

\* A need of 120 met from two plants, the second one in part: nothing
\* remains and no production option is looked up.
C28_Witness ==
    /\ IsAdvisor /\ ret.args.missing_qty = 120
    /\ Len(ret.out.reallocate_plan) = 2
    /\ ret.out.reallocate_plan[2].ship_qty
          < ret.out.reallocate_plan[2].available_qty
    /\ ret.out.remaining_need_after_reallocation = 0
    /\ ret.out.lookups = 0

\* C29 (as stated): the plant that reported the shortage never appears as a
\* shipping plant of reallocate_plan, whether or not it has a row in the
\* plants table.
C29_OriginNeverShips ==
    IsAdvisor =>
        \A e \in Range(ret.out.reallocate_plan) :
            e.Plant /= ret.args.origin_plant

====
